---- MODULE Spec2Model ----
(***************************************************************************)
(* A model of uer/utils/data.py: the corpus partitioner, the build workers *)
(* of the six datasets (Bert, Lm, Cls, Mlm, Nsp, S2s), the instance        *)
(* builders with masking and truncation, and the shard loaders.            *)
(*                                                                         *)
(* A corpus is a sequence of one-character strings (one per byte).  A      *)
(* shard file is the sequence of the batches pickled into it.  fn holds    *)
(* one call of mask_seq or of truncate_seq_pair on its own.                *)
(***************************************************************************)
EXTENDS Integers, Sequences, FiniteSets, TLC

VARIABLES part, cfg, wk, returned, ld, fn

partVars == <<part>>
buildVars == <<cfg, wk, returned>>
loaderVars == <<ld>>
fnVars == <<fn>>
vars == <<part, cfg, wk, returned, ld, fn>>

(***************************************************************************)
(* Bounds of the model.                                                    *)
(***************************************************************************)
MaxSize == 12
MaxPartWorkers == 4
MaxCorpus == 5
MaxMlmCorpus == 2
MaxDocCorpus == 7
MaxWorkers == 2
MaxSpin == 1
MinSeqLen == 5
MaxSeqLen == 6
MaxInstances == 4
MaxBatchSize == 2
MaxProcNum == 2
MaxBufferSize == 3
MaxMaskLen == 3
MaxTruncLen == 4
MaxTruncMax == 4
MaxLmLen == 4
MaxStepLen == 2
MaxLmSeq == 3

(***************************************************************************)
(* Reserved vocabulary ids (uer.utils.constants) and the vocabulary.       *)
(***************************************************************************)
PAD_ID == 0
UNK_ID == 1
CLS_ID == 2
SEP_ID == 3
MASK_ID == 4
X_ID == 5
VocabSize == 6

NL == "\n"
TAB == "\t"
SP == " "

(***************************************************************************)
(* Sequence helpers with Python's meaning.                                 *)
(***************************************************************************)
Min(a, b) == IF a <= b THEN a ELSE b
Max(a, b) == IF a >= b THEN a ELSE b

SetMin(S) == CHOOSE x \in S : \A y \in S : x <= y
SetMax(S) == CHOOSE x \in S : \A y \in S : x >= y

\* s[lo:hi] for lo, hi >= 0 (0-based, end exclusive, clamped to the sequence).
Slice(s, lo, hi) ==
    LET l == Min(lo, Len(s))
        h == Min(hi, Len(s))
    IN  IF l >= h THEN <<>> ELSE SubSeq(s, l + 1, h)

\* [v] * n
Repeat(v, n) == [k \in 1..n |-> v]

\* "while len(s) != n: s.append(v)", defined when len(s) <= n.
PadTo(s, n, v) == s \o Repeat(v, n - Len(s))

RECURSIVE Flatten(_)
Flatten(ss) == IF ss = <<>> THEN <<>> ELSE Head(ss) \o Flatten(Tail(ss))

RECURSIVE SeqSum(_)
SeqSum(s) == IF s = <<>> THEN 0 ELSE Head(s) + SeqSum(Tail(s))

\* All sequences over S of length 0..n.
SeqsUpTo(S, n) == UNION {[1..k -> S] : k \in 0..n}

(***************************************************************************)
(* Text: str.strip, str.split, int, and the line-reading file cursor.      *)
(***************************************************************************)
IsSpace(c) == c \in {NL, TAB, SP}

Strip(s) ==
    LET idx == {k \in 1..Len(s) : ~IsSpace(s[k])}
    IN  IF idx = {} THEN <<>> ELSE SubSeq(s, SetMin(idx), SetMax(idx))

\* s.split(sep): the fields between the separators, empty fields kept.
RECURSIVE SplitOn(_, _)
SplitOn(s, sep) ==
    LET idx == {k \in 1..Len(s) : s[k] = sep}
    IN  IF idx = {} THEN <<s>>
        ELSE <<SubSeq(s, 1, SetMin(idx) - 1)>>
                 \o SplitOn(SubSeq(s, SetMin(idx) + 1, Len(s)), sep)

\* s.split(): the maximal runs of non-whitespace characters.
RECURSIVE SplitWs(_)
SplitWs(s) ==
    LET t == Strip(s)
        sp == {k \in 1..Len(t) : IsSpace(t[k])}
    IN  IF t = <<>> THEN <<>>
        ELSE IF sp = {} THEN <<t>>
        ELSE <<SubSeq(t, 1, SetMin(sp) - 1)>>
                 \o SplitWs(SubSeq(t, SetMin(sp) + 1, Len(t)))

IsDigit(c) == c \in {"0", "1", "2", "3", "4", "5", "6", "7", "8", "9"}

DigitVal(c) ==
    CASE c = "0" -> 0 [] c = "1" -> 1 [] c = "2" -> 2 [] c = "3" -> 3
      [] c = "4" -> 4 [] c = "5" -> 5 [] c = "6" -> 6 [] c = "7" -> 7
      [] c = "8" -> 8 [] OTHER -> 9

\* int(s) succeeds on a non-empty string of digits (after stripping).
IntOk(s) == Strip(s) # <<>> /\ \A k \in 1..Len(Strip(s)) : IsDigit(Strip(s)[k])

RECURSIVE IntVal(_)
IntVal(s) ==
    LET t == Strip(s)
    IN  IF t = <<>> THEN 0
        ELSE 10 * IntVal(SubSeq(t, 1, Len(t) - 1)) + DigitVal(t[Len(t)])

\* The offset just after the line that starts at offset off: after its
\* newline, or the end of the file.
LineEnd(c, off) ==
    LET nl == {k \in (off + 1)..Len(c) : c[k] = NL}
    IN  IF nl = {} THEN Len(c) ELSE SetMin(nl)

\* f.readline() with the file cursor at off: the line with its newline, or
\* the empty string at end of file.
ReadLine(c, off) == SubSeq(c, off + 1, LineEnd(c, off))

\* count_lines: the number of lines "for line in f" yields.
count_lines(c) ==
    Cardinality({k \in 1..Len(c) : c[k] = NL})
        + (IF Len(c) > 0 /\ c[Len(c)] # NL THEN 1 ELSE 0)

(***************************************************************************)
(* The tokenizer and the vocabulary (collaborators of data.py): a          *)
(* character tokenizer that yields no token for whitespace and for the     *)
(* character "z"; the vocabulary holds the reserved tokens and "x", and    *)
(* vocab.get maps any other token to UNK_ID.                               *)
(***************************************************************************)
IsTokenChar(c) == ~IsSpace(c) /\ c # "z"

Tokenize(text) == SelectSeq(text, IsTokenChar)

VocabGet(w) == IF w = "x" THEN X_ID ELSE UNK_ID

\* [self.vocab.get(w) for w in self.tokenizer.tokenize(text)]
TokenIds(text) == [k \in 1..Len(Tokenize(text)) |-> VocabGet(Tokenize(text)[k])]

(***************************************************************************)
(* Corpus partitioner: build_and_save.                                     *)
(***************************************************************************)
RangeStart(i, n, W) == IF W = 1 THEN 0 ELSE (i * n) \div W

RangeEndBad(i, n, W) == IF W = 1 THEN n ELSE (i + 1) * (n \div W)
RangeEnd(i, n, W) == IF W = 1 THEN n ELSE ((i + 1) * n) \div W

PartIdle == [n |-> 0, W |-> 0, i |-> 0, ranges |-> <<>>]

PartInit == part \in [n : 0..MaxSize, W : 1..MaxPartWorkers, i : {0}, ranges : {<<>>}]

\* workers_num == 1: self.worker(0, 0, n)
PartInline ==
    /\ part.W = 1 /\ part.i = 0
    /\ part' = [part EXCEPT !.i = 1,
                            !.ranges = <<<<RangeStart(0, part.n, 1), RangeEnd(0, part.n, 1)>>>>]

\* one turn of "for i in range(workers_num): ... pool.apply_async(...)"
PartSubmit ==
    /\ part.W > 1 /\ part.i < part.W
    /\ part' = [part EXCEPT !.i = part.i + 1,
                            !.ranges = Append(part.ranges,
                                <<RangeStart(part.i, part.n, part.W),
                                  RangeEnd(part.i, part.n, part.W)>>)]

(***************************************************************************)
(* mask_seq.  Each position's random draw has four kinds of outcome; the   *)
(* operator gives every (src, tgt_mlm) the draws can produce.              *)
(***************************************************************************)
\* The ids the rejection loop "while True: rdi = randint(1, vocab_size-1)"
\* can leave with.
RandIds(V) == {r \in 1..(V - 1) : r \notin {CLS_ID, SEP_ID, MASK_ID}}

MaskTokenOutcomesBad(token, V) ==
    {<<token, PAD_ID>>, <<MASK_ID, token>>, <<token, token>>}
        \cup {<<r, token>> : r \in RandIds(V)}
MaskTokenOutcomes(token, V) ==
    IF token = CLS_ID \/ token = SEP_ID
    THEN {<<token, PAD_ID>>}
    ELSE {<<token, PAD_ID>>}                       \* prob >= 0.15
           \cup {<<MASK_ID, token>>}               \* prob / 0.15 < 0.8
           \cup {<<r, token>> : r \in RandIds(V)}  \* 0.8 <= prob / 0.15 < 0.9
           \cup {<<token, token>>}                 \* prob / 0.15 >= 0.9

RECURSIVE mask_seq(_, _)
mask_seq(src, V) ==
    IF src = <<>> THEN {<< <<>>, <<>> >>}
    ELSE {<< <<h[1]>> \o r[1], <<h[2]>> \o r[2] >> :
              h \in MaskTokenOutcomes(Head(src), V), r \in mask_seq(Tail(src), V)}

\* One call of mask_seq on its own: any sequence of vocabulary ids comes in
\* (src is a list of ids below vocab_size), the call returns (src, tgt_mlm).
FnIdle == [op |-> "none"]

MaskInit ==
    fn \in [op : {"mask_seq"}, src : SeqsUpTo(0..(VocabSize - 1), MaxMaskLen),
            out : {<<>>}, returned : {FALSE}]

MaskCall ==
    /\ fn.op = "mask_seq" /\ ~fn.returned
    /\ \E m \in mask_seq(fn.src, VocabSize) :
           fn' = [fn EXCEPT !.out = m, !.returned = TRUE]
    /\ UNCHANGED <<part, cfg, wk, returned, ld>>

(***************************************************************************)
(* mask_seq step by step: one turn of its for loop, and one turn of the    *)
(* rejection loop, at a time.  src0 is the list that came in, src the list *)
(* as mask_seq has rewritten it so far, i the position of the for loop;    *)
(* how[k] tells the branch position k took: "skip" (CLS or SEP), "none"    *)
(* (prob >= 0.15), "mask" (rescaled prob < 0.8), "rand" (in [0.8, 0.9)),   *)
(* "keep" (>= 0.9); rdi is the last draw of the rejection loop and         *)
(* rejected tells that it rejected a draw.                                 *)
(***************************************************************************)
\* random.randint(1, vocab_size - 1)
DrawRangeBad(V) == 0..(V - 1)
DrawRange(V) == 1..(V - 1)

\* "if rdi not in [CLS_ID, SEP_ID, MASK_ID]: break"
DrawAccepted(rdi) == rdi \notin {CLS_ID, SEP_ID, MASK_ID}

StepInit ==
    \E s \in SeqsUpTo(0..(VocabSize - 1), MaxStepLen) :
        fn = [op |-> "mask_step", src0 |-> s, src |-> s, tgt |-> <<>>, i |-> 0,
              pc |-> "token", how |-> <<>>, rdi |-> 0, rejected |-> FALSE]

\* One turn of "for (i, token) in enumerate(src)", up to the rejection loop
\* when the rescaled draw is in [0.8, 0.9).
MaskToken ==
    /\ fn.op = "mask_step" /\ fn.pc = "token" /\ fn.i < Len(fn.src)
    /\ LET token == fn.src[fn.i + 1]
       IN  IF token = CLS_ID \/ token = SEP_ID
           THEN fn' = [fn EXCEPT !.tgt = Append(fn.tgt, PAD_ID), !.i = fn.i + 1,
                                 !.how = Append(fn.how, "skip")]
           ELSE \E br \in {"none", "mask", "rand", "keep"} :
                  fn' = CASE br = "none" ->
                               [fn EXCEPT !.tgt = Append(fn.tgt, PAD_ID), !.i = fn.i + 1,
                                          !.how = Append(fn.how, br)]
                          [] br = "mask" ->
                               [fn EXCEPT !.src[fn.i + 1] = MASK_ID,
                                          !.tgt = Append(fn.tgt, token), !.i = fn.i + 1,
                                          !.how = Append(fn.how, br)]
                          [] br = "keep" ->
                               [fn EXCEPT !.tgt = Append(fn.tgt, token), !.i = fn.i + 1,
                                          !.how = Append(fn.how, br)]
                          [] OTHER ->
                               [fn EXCEPT !.pc = "draw", !.how = Append(fn.how, br)]
    /\ UNCHANGED <<part, cfg, wk, returned, ld>>

\* One turn of "while True: rdi = random.randint(1, vocab_size-1)": the
\* loop is left when the draw is accepted, then "src[i] = rdi" and
\* "tgt_mlm.append(token)".
MaskDraw ==
    /\ fn.op = "mask_step" /\ fn.pc = "draw"
    /\ \E rdi \in DrawRange(VocabSize) :
           fn' = IF DrawAccepted(rdi)
                 THEN [fn EXCEPT !.rdi = rdi, !.src[fn.i + 1] = rdi,
                                 !.tgt = Append(fn.tgt, fn.src[fn.i + 1]),
                                 !.i = fn.i + 1, !.pc = "token"]
                 ELSE [fn EXCEPT !.rdi = rdi, !.rejected = TRUE]
    /\ UNCHANGED <<part, cfg, wk, returned, ld>>

\* A turn of the rejection loop whose draw is accepted.
MaskDrawAccept == MaskDraw /\ fn'.pc = "token"

\* "return src, tgt_mlm"
MaskReturn ==
    /\ fn.op = "mask_step" /\ fn.pc = "token" /\ fn.i = Len(fn.src)
    /\ fn' = [fn EXCEPT !.pc = "done"]
    /\ UNCHANGED <<part, cfg, wk, returned, ld>>

(***************************************************************************)
(* The instances of the line builders: the statements of each worker       *)
(* between the tokenization and instances.append.                          *)
(***************************************************************************)
\* LmDataset.worker: src, tgt and seg get one PAD each per turn of the
\* padding loop, which runs until len(src) == seq_length.
LmInstanceBad(ids, L) ==
    LET src == Slice(ids, 0, Len(ids) - 1)
        seg == Repeat(1, Len(src))
    IN  IF Len(src) >= L
        THEN <<Slice(src, 0, L), Slice(src, 0, L), Slice(seg, 0, L)>>
        ELSE <<PadTo(src, L, PAD_ID), PadTo(src, L, PAD_ID), PadTo(seg, L, PAD_ID)>>
LmInstance(ids, L) ==
    LET tgt == Slice(ids, 1, Len(ids))
        src == Slice(ids, 0, Len(ids) - 1)
        seg == Repeat(1, Len(src))
    IN  IF Len(src) >= L
        THEN <<Slice(src, 0, L), Slice(tgt, 0, L), Slice(seg, 0, L)>>
        ELSE <<PadTo(src, L, PAD_ID), tgt \o Repeat(PAD_ID, L - Len(src)),
               PadTo(seg, L, PAD_ID)>>

\* The instance LmDataset.worker builds from one line on its own: the ids
\* of any line come in, with any seq_length.
LmInit ==
    fn \in [op : {"lm"}, ids : SeqsUpTo(0..(VocabSize - 1), MaxLmLen),
            L : 1..MaxLmSeq, out : {<<>>}, returned : {FALSE}]

LmCall ==
    /\ fn.op = "lm" /\ ~fn.returned
    /\ fn' = [fn EXCEPT !.out = LmInstance(fn.ids, fn.L), !.returned = TRUE]
    /\ UNCHANGED <<part, cfg, wk, returned, ld>>

\* ClsDataset.worker
ClsInstanceBad(label, ids, L) ==
    LET seg == Repeat(1, Len(ids))
    IN  IF Len(ids) >= L
        THEN <<Slice(ids, 0, L), label, Slice(seg, 0, L)>>
        ELSE <<PadTo(ids, L, PAD_ID), label, PadTo(seg, L, 1)>>
ClsInstance(label, ids, L) ==
    LET seg == Repeat(1, Len(ids))
    IN  IF Len(ids) >= L
        THEN <<Slice(ids, 0, L), label, Slice(seg, 0, L)>>
        ELSE <<PadTo(ids, L, PAD_ID), label, PadTo(seg, L, PAD_ID)>>

\* MlmDataset.worker, m = (src, tgt) as mask_seq returned them.
MlmInstance(m, L) ==
    LET src == m[1]
        tgt == m[2]
        seg == Repeat(1, Len(src))
    IN  IF Len(src) >= L
        THEN <<Slice(src, 0, L), Slice(tgt, 0, L), Slice(seg, 0, L)>>
        ELSE <<PadTo(src, L, PAD_ID), tgt \o Repeat(PAD_ID, L - Len(src)),
               PadTo(seg, L, PAD_ID)>>

\* S2sDataset.worker: src and seg are cut or padded together, tgt on its own.
S2sInstance(src, tgt, L) ==
    LET seg == Repeat(1, Len(src))
        s == IF Len(src) >= L THEN Slice(src, 0, L) ELSE PadTo(src, L, PAD_ID)
        g == IF Len(src) >= L THEN Slice(seg, 0, L) ELSE PadTo(seg, L, PAD_ID)
        t == IF Len(tgt) >= L THEN Slice(tgt, 0, L) ELSE PadTo(tgt, L, PAD_ID)
    IN  <<s, t, g>>

\* The fields of a classification line: line.strip().split("\t").
ClsFields(line) == SplitOn(Strip(line), TAB)

\* "label, text = int(line[0]), line[1]" raises nothing.
ClsWellFormed(line) == Len(ClsFields(line)) >= 2 /\ IntOk(ClsFields(line)[1])

\* "src, tgt = line.strip().split()" raises nothing.
S2sWellFormed(line) == Len(SplitWs(line)) = 2

(***************************************************************************)
(* The build phase: configuration, build_and_save and the workers.         *)
(***************************************************************************)
Tasks == {"bert", "lm", "cls", "mlm", "nsp", "s2s"}
DocTasks == {"bert", "nsp"}

Workers == 0..(MaxWorkers - 1)

Alphabet(task) ==
    CASE task \in {"bert", "nsp"} -> {"x", "z", NL}
      [] task = "lm" -> {"x", "y", NL}
      [] task = "mlm" -> {"x", NL}
      [] task = "cls" -> {"1", TAB, "x", NL}
      [] OTHER -> {"x", SP, NL}

CorpusBound(task) ==
    CASE task = "mlm" -> MaxMlmCorpus
      [] task \in DocTasks -> MaxDocCorpus
      [] OTHER -> MaxCorpus

SeqLengths(task) ==
    IF task \in DocTasks THEN MinSeqLen..MaxSeqLen ELSE 2..3

\* The configurations explored.  BertDataset runs with dup_factor 2 on the
\* shorter corpora and the shortest sequences only.
Configs ==
    UNION {[task : {t}, corpus : SeqsUpTo(Alphabet(t), CorpusBound(t)),
            workers_num : 1..MaxWorkers, seq_length : SeqLengths(t),
            buffer_size : IF t = "bert" THEN 1..2 ELSE {1},
            dup_factor : IF t = "mlm" THEN 1..2 ELSE {1},
            phase : {"new"}] : t \in Tasks}
      \cup [task : {"bert"} \cap Tasks, corpus : SeqsUpTo(Alphabet("bert"), MaxDocCorpus - 1),
             workers_num : 1..MaxWorkers, seq_length : {MinSeqLen},
             buffer_size : 1..2, dup_factor : {2}, phase : {"new"}]

\* What the worker remembers of the last chunk it closed: the segments after
\* truncation, the coin, the documents, the chunk (first sentence cs, clen
\* sentences, ctok tokens, the target it was measured against, whether it
\* closed on the last sentence), a_end, the cursor after it and the
\* instance.
NoLast == [set |-> FALSE, a |-> <<>>, b |-> <<>>, rnd |-> 0, rdoc |-> 0, doc |-> 0,
           cs |-> 0, clen |-> 0, ctok |-> 0, target |-> 0, at_end |-> FALSE,
           a_end |-> 0, next |-> 0, ins |-> <<>>]

IdleWorker ==
    [pc |-> "idle", start |-> 0, end |-> 0, pos |-> 0, f |-> 0,
     document |-> <<>>, docs_buffer |-> <<>>, instances |-> <<>>,
     shard |-> <<>>, dup |-> 0, err |-> "", spins |-> 0, read_any |-> FALSE,
     bs |-> "none", after |-> "none", doc_index |-> 0, target |-> 0, i |-> 0,
     chunk |-> <<>>, cur_len |-> 0, last |-> NoLast, built |-> <<>>,
     placed |-> <<>>, made |-> 0, closed |-> <<>>, file |-> <<>>]

BuildIdle ==
    /\ cfg = [task |-> "none", corpus |-> <<>>, workers_num |-> 0, seq_length |-> 0,
              buffer_size |-> 0, dup_factor |-> 0, phase |-> "off"]
    /\ wk = [w \in Workers |-> IdleWorker]
    /\ returned = "no"

BuildInit ==
    /\ cfg \in Configs
    /\ wk = [w \in Workers |-> IdleWorker]
    /\ returned = "no"

\* The n build_and_save divides: the line count for BertDataset, the file
\* size for the others.
CorpusSize == IF cfg.task = "bert" THEN count_lines(cfg.corpus) ELSE Len(cfg.corpus)

\* The name of the file a worker opens for writing, after dataset_path:
\* "-" + str(proc_id) + ".pt".
ShardNameBad(proc_id) == <<"-", 0, ".pt">>
ShardName(proc_id) == <<"-", proc_id, ".pt">>

\* The worker's state when its read loop starts: files opened, f.seek(start)
\* done (BertDataset reads from the top and counts lines up to start).
StartedWorker(w) ==
    LET s == RangeStart(w, CorpusSize, cfg.workers_num)
        e == RangeEnd(w, CorpusSize, cfg.workers_num)
    IN  IF cfg.task = "bert"
        THEN [IdleWorker EXCEPT !.pc = "skip", !.start = s, !.end = e,
                                !.file = ShardName(w)]
        ELSE [IdleWorker EXCEPT !.pc = "read", !.start = s, !.end = e,
                                !.pos = s, !.f = s, !.file = ShardName(w)]

build_and_save ==
    /\ cfg.phase = "new"
    /\ cfg' = [cfg EXCEPT !.phase = "running"]
    /\ wk' = [w \in Workers |-> IF w < cfg.workers_num THEN StartedWorker(w) ELSE IdleWorker]
    /\ UNCHANGED <<returned, part, ld, fn>>

\* pool.join() returns (or the inline worker call returns or raises).
Join ==
    /\ cfg.phase = "running"
    /\ returned = "no"
    /\ \A w \in Workers : wk[w].pc \in {"idle", "done", "crashed"}
    /\ returned' = IF cfg.workers_num = 1 /\ wk[0].pc = "crashed" THEN "raised" ELSE "yes"
    /\ UNCHANGED <<cfg, wk, part, ld, fn>>

Running(w) == cfg.phase = "running" /\ w \in Workers

SetWk(w, r) == wk' = [wk EXCEPT ![w] = r]

\* pickle.dump(instances, f_write); break; f_write.close()
DumpAndClose(r, ins) == [r EXCEPT !.instances = ins, !.shard = Append(r.shard, ins), !.pc = "done"]

\* LmDataset.worker: one turn of the read loop.
LmRead(w) ==
    /\ Running(w) /\ cfg.task = "lm" /\ wk[w].pc = "read"
    /\ LET r == wk[w]
           line == ReadLine(cfg.corpus, r.f)
           nf == LineEnd(cfg.corpus, r.f)
           ins == Append(r.instances, LmInstance(TokenIds(line), cfg.seq_length))
           r1 == [r EXCEPT !.f = nf, !.pos = nf, !.read_any = TRUE]
       IN  SetWk(w, IF nf >= r.end THEN DumpAndClose(r1, ins)
                    ELSE [r1 EXCEPT !.instances = ins])
    /\ UNCHANGED <<cfg, returned, part, ld, fn>>

\* ClsDataset.worker: one turn of the read loop; any exception of the three
\* statements under try leads to continue.
ClsRead(w) ==
    /\ Running(w) /\ cfg.task = "cls" /\ wk[w].pc = "read"
    /\ LET r == wk[w]
           line == ReadLine(cfg.corpus, r.f)
           nf == LineEnd(cfg.corpus, r.f)
           fields == ClsFields(line)
           r1 == [r EXCEPT !.f = nf, !.read_any = TRUE]
       IN  IF ~ClsWellFormed(line)
           THEN SetWk(w, r1)
           ELSE LET ins == Append(r.instances,
                               ClsInstance(IntVal(fields[1]), TokenIds(fields[2]),
                                           cfg.seq_length))
                    r2 == [r1 EXCEPT !.pos = nf]
                IN  SetWk(w, IF nf >= r.end THEN DumpAndClose(r2, ins)
                             ELSE [r2 EXCEPT !.instances = ins])
    /\ UNCHANGED <<cfg, returned, part, ld, fn>>

\* S2sDataset.worker: one turn of the read loop.
S2sRead(w) ==
    /\ Running(w) /\ cfg.task = "s2s" /\ wk[w].pc = "read"
    /\ LET r == wk[w]
           line == ReadLine(cfg.corpus, r.f)
           nf == LineEnd(cfg.corpus, r.f)
           parts == SplitWs(line)
           r1 == [r EXCEPT !.f = nf, !.read_any = TRUE]
       IN  IF ~S2sWellFormed(line)
           THEN SetWk(w, r1)
           ELSE LET ins == Append(r.instances,
                               S2sInstance(TokenIds(parts[1]), TokenIds(parts[2]),
                                           cfg.seq_length))
                    r2 == [r1 EXCEPT !.pos = nf]
                IN  SetWk(w, IF nf >= r.end THEN DumpAndClose(r2, ins)
                             ELSE [r2 EXCEPT !.instances = ins])
    /\ UNCHANGED <<cfg, returned, part, ld, fn>>

\* MlmDataset.worker: one turn of the read loop; at the range end the next
\* turn of "for _ in range(self.dup_factor)" seeks back to start, and after
\* the last one the instances are dumped.
MlmRead(w) ==
    /\ Running(w) /\ cfg.task = "mlm" /\ wk[w].pc = "read"
    /\ LET r == wk[w]
           line == ReadLine(cfg.corpus, r.f)
           nf == LineEnd(cfg.corpus, r.f)
       IN  \E m \in mask_seq(TokenIds(line), VocabSize) :
               LET ins == Append(r.instances, MlmInstance(m, cfg.seq_length))
                   r1 == [r EXCEPT !.f = nf, !.pos = nf, !.read_any = TRUE]
               IN  SetWk(w, IF nf < r.end THEN [r1 EXCEPT !.instances = ins]
                            ELSE IF r.dup + 1 < cfg.dup_factor
                            THEN [r1 EXCEPT !.instances = ins, !.dup = r.dup + 1,
                                            !.f = r.start]
                            ELSE DumpAndClose([r1 EXCEPT !.dup = r.dup + 1], ins))
    /\ UNCHANGED <<cfg, returned, part, ld, fn>>

(***************************************************************************)
(* truncate_seq_pair and the pieces of create_ins_from_doc.                *)
(***************************************************************************)
Front(s) == SubSeq(s, 1, Len(s) - 1)

\* Every (tokens_a, tokens_b) the loop can end with; err is set when the
\* segment to trim is empty (the assertion of NspDataset fails, "del
\* trunc_tokens[0]" raises in BertDataset).
RECURSIVE truncate_seq_pair(_, _, _)
truncate_seq_pair(a, b, max_num_tokens) ==
    IF Len(a) + Len(b) <= max_num_tokens
    THEN {[a |-> a, b |-> b, err |-> FALSE]}
    ELSE IF Len(a) > Len(b)
    THEN truncate_seq_pair(Tail(a), b, max_num_tokens)
             \cup truncate_seq_pair(Front(a), b, max_num_tokens)
    ELSE IF b = <<>>
    THEN {[a |-> a, b |-> b, err |-> TRUE]}
    ELSE truncate_seq_pair(a, Tail(b), max_num_tokens)
             \cup truncate_seq_pair(a, Front(b), max_num_tokens)

\* One turn of the loop of truncate_seq_pair past its break: the pairs the
\* removal can leave, none when trunc_tokens is empty (the removal raises).
TruncOnceBad(a, b) ==
    IF Len(a) >= Len(b)
    THEN IF a = <<>> THEN {} ELSE {[a |-> Tail(a), b |-> b], [a |-> Front(a), b |-> b]}
    ELSE IF b = <<>> THEN {} ELSE {[a |-> a, b |-> Tail(b)], [a |-> a, b |-> Front(b)]}
TruncOnce(a, b) ==
    IF Len(a) > Len(b)
    THEN IF a = <<>> THEN {} ELSE {[a |-> Tail(a), b |-> b], [a |-> Front(a), b |-> b]}
    ELSE IF b = <<>> THEN {} ELSE {[a |-> a, b |-> Tail(b)], [a |-> a, b |-> Front(b)]}

\* One call of truncate_seq_pair on its own, a turn of its loop per step.
\* The tokens of the two lists are numbered, so that a list tells which of
\* its tokens are left.  from, pa and pb tell the list the last turn took a
\* token from and the lengths it found.
TruncInit ==
    \E la \in 0..MaxTruncLen, lb \in 0..MaxTruncLen, mx \in 0..MaxTruncMax :
        fn = [op |-> "truncate_seq_pair",
              a0 |-> [k \in 1..la |-> k], b0 |-> [k \in 1..lb |-> MaxTruncLen + 1 + k],
              a |-> [k \in 1..la |-> k], b |-> [k \in 1..lb |-> MaxTruncLen + 1 + k],
              max_num_tokens |-> mx, pc |-> "loop", turns |-> 0,
              from |-> "none", pa |-> 0, pb |-> 0]

\* "if total_length <= max_num_tokens: break"
TruncBreak ==
    /\ fn.op = "truncate_seq_pair" /\ fn.pc = "loop"
    /\ Len(fn.a) + Len(fn.b) <= fn.max_num_tokens
    /\ fn' = [fn EXCEPT !.pc = "done"]
    /\ UNCHANGED <<part, cfg, wk, returned, ld>>

\* A turn that removes a token.
TruncRemove ==
    /\ fn.op = "truncate_seq_pair" /\ fn.pc = "loop"
    /\ Len(fn.a) + Len(fn.b) > fn.max_num_tokens
    /\ IF TruncOnce(fn.a, fn.b) = {}
       THEN fn' = [fn EXCEPT !.pc = "raised"]
       ELSE \E t \in TruncOnce(fn.a, fn.b) :
                fn' = [fn EXCEPT !.a = t.a, !.b = t.b, !.turns = fn.turns + 1,
                                 !.from = IF t.a # fn.a THEN "a" ELSE "b",
                                 !.pa = Len(fn.a), !.pb = Len(fn.b)]
    /\ UNCHANGED <<part, cfg, wk, returned, ld>>

\* "for _ in range(10): random_document_index = randint(0, n - 1); if
\* random_document_index != document_index: break": the first draw that
\* differs from document_index, or the tenth draw when all ten hit it, so
\* every index can come out.
RandomDocChoices(n, document_index) == 0..(n - 1)

\* tokens_b of a random next: the sentences of random_document from index j
\* (1-based here) on, until len(tokens_b) >= target_b_length.
RECURSIVE RandomNextTokens(_, _, _, _)
RandomNextTokens(doc, j, acc, target_b_length) ==
    IF j > Len(doc) THEN acc
    ELSE IF Len(acc \o doc[j]) >= target_b_length THEN acc \o doc[j]
    ELSE RandomNextTokens(doc, j + 1, acc \o doc[j], target_b_length)

\* src and seg before masking and padding.
AssembleSrc(a, b) == <<CLS_ID>> \o a \o <<SEP_ID>> \o b \o <<SEP_ID>>
AssembleSegBad(a, b) == Repeat(1, Len(a) + 1) \o Repeat(2, Len(b) + 2)
AssembleSeg(a, b) == Repeat(1, Len(a) + 2) \o Repeat(2, Len(b) + 1)

\* BertDataset: the instance after mask_seq (m) and the padding loop, which
\* appends one PAD to src, tgt_mlm and seg per turn until len(src) ==
\* seq_length.
BertInstanceBad(m, seg, rnd, L) ==
    <<m[1], m[2], rnd, seg>>
BertInstance(m, seg, rnd, L) ==
    <<PadTo(m[1], L, PAD_ID), m[2] \o Repeat(PAD_ID, L - Len(m[1])), rnd,
      seg \o Repeat(PAD_ID, L - Len(m[1]))>>

\* NspDataset: src and seg padded together.
NspInstance(src, seg, rnd, L) ==
    <<PadTo(src, L, PAD_ID), rnd, seg \o Repeat(PAD_ID, L - Len(src))>>

(***************************************************************************)
(* build_instances / create_ins_from_doc of BertDataset and NspDataset,    *)
(* one action per turn of the while loop.                                  *)
(***************************************************************************)
MaxNumTokens == cfg.seq_length - 3

\* target_seq_length: max_num_tokens, or randint(2, max_num_tokens) when
\* random.random() < short_seq_prob (BertDataset only).
TargetChoices ==
    IF cfg.task = "bert" THEN {MaxNumTokens} \cup 2..MaxNumTokens ELSE {MaxNumTokens}

\* The worker calls build_instances(docs_buffer).
EnterBuild(r, after) ==
    [r EXCEPT !.pc = "build", !.bs = "enter", !.after = after, !.dup = 0,
              !.doc_index = 0, !.instances = <<>>,
              !.built = Append(r.built, r.docs_buffer)]

\* Entry of create_ins_from_doc, up to the while loop.
CreateInsEnter(w) ==
    /\ Running(w) /\ wk[w].pc = "build" /\ wk[w].bs = "enter"
    /\ \E t \in TargetChoices :
           SetWk(w, [wk[w] EXCEPT !.bs = "loop", !.target = t, !.i = 0,
                                  !.chunk = <<>>, !.cur_len = 0,
                                  !.placed = <<>>, !.made = 0])
    /\ UNCHANGED <<cfg, returned, part, ld, fn>>

\* The state after a chunk was closed with a_end, the coin rnd, the random
\* document rdi, the truncation t and the instance ins: the rewind "i -=
\* num_unused_segments" of a random next, then "i += 1".  placed collects
\* the sentences that went to tokens_a or to an actual-next tokens_b in this
\* pass, made counts the instances of the pass.
ChunkClosed(r, chunk, a_end, rnd, rdi, t, ins, next) ==
    [r EXCEPT !.instances = Append(r.instances, ins),
              !.chunk = <<>>, !.cur_len = 0,
              !.i = next,
              !.placed = r.placed \o (IF rnd = 1 THEN SubSeq(chunk, 1, a_end) ELSE chunk),
              !.made = r.made + 1,
              !.last = [set |-> TRUE, a |-> t.a, b |-> t.b, rnd |-> rnd,
                        rdoc |-> rdi, doc |-> r.doc_index,
                        cs |-> r.i - (Len(chunk) - 1), clen |-> Len(chunk),
                        ctok |-> Len(Flatten(chunk)), target |-> r.target,
                        at_end |-> (r.i = Len(r.docs_buffer[r.doc_index + 1]) - 1),
                        a_end |-> a_end, next |-> next, ins |-> ins]]

AfterChunkFar(r, chunk, a_end, rnd, rdi, t, ins) ==
    ChunkClosed(r, chunk, a_end, rnd, rdi, t, ins,
                (IF rnd = 1 THEN r.i - (Len(chunk) - a_end) - 1 ELSE r.i) + 1)
AfterChunkOn(r, chunk, a_end, rnd, rdi, t, ins) ==
    ChunkClosed(r, chunk, a_end, rnd, rdi, t, ins, r.i + 1)
AfterChunk(r, chunk, a_end, rnd, rdi, t, ins) ==
    ChunkClosed(r, chunk, a_end, rnd, rdi, t, ins,
                (IF rnd = 1 THEN r.i - (Len(chunk) - a_end) ELSE r.i) + 1)

Crash(r, e) == [r EXCEPT !.pc = "crashed", !.err = e]

\* One turn of "while i < len(document)".
CreateInsIter(w) ==
    /\ Running(w) /\ wk[w].pc = "build" /\ wk[w].bs = "loop"
    /\ wk[w].i < Len(wk[w].docs_buffer[wk[w].doc_index + 1])
    /\ LET r == wk[w]
           all_documents == r.docs_buffer
           document == all_documents[r.doc_index + 1]
           segment == document[r.i + 1]
           chunk == Append(r.chunk, segment)
           len == r.cur_len + Len(segment)
       IN  IF ~(r.i = Len(document) - 1 \/ len >= r.target)
           THEN SetWk(w, [r EXCEPT !.chunk = chunk, !.cur_len = len, !.i = r.i + 1])
           ELSE \E a_end \in (IF Len(chunk) >= 2 THEN 1..(Len(chunk) - 1) ELSE {1}),
                   rnd \in (IF Len(chunk) = 1 THEN {1} ELSE {0, 1}),
                   rdi \in RandomDocChoices(Len(all_documents), r.doc_index) :
                \E rs \in 0..(Len(all_documents[rdi + 1]) - 1) :
                  LET tokens_a == Flatten(SubSeq(chunk, 1, a_end))
                      tokens_b ==
                          IF rnd = 1
                          THEN RandomNextTokens(all_documents[rdi + 1], rs + 1, <<>>,
                                                r.target - Len(tokens_a))
                          ELSE Flatten(SubSeq(chunk, a_end + 1, Len(chunk)))
                  IN  \E t \in truncate_seq_pair(tokens_a, tokens_b, MaxNumTokens) :
                        IF t.err
                        THEN SetWk(w, Crash(r, IF cfg.task = "nsp" THEN "assert_trunc"
                                                ELSE "index"))
                        ELSE IF cfg.task = "nsp" /\ Len(t.a) < 1
                        THEN SetWk(w, Crash(r, "assert_a"))
                        ELSE IF cfg.task = "nsp" /\ Len(t.b) < 1
                        THEN SetWk(w, Crash(r, "assert_b"))
                        ELSE IF cfg.task = "nsp"
                        THEN SetWk(w, AfterChunk(r, chunk, a_end, rnd, rdi, t,
                                 NspInstance(AssembleSrc(t.a, t.b), AssembleSeg(t.a, t.b),
                                             rnd, cfg.seq_length)))
                        ELSE \E m \in mask_seq(AssembleSrc(t.a, t.b), VocabSize) :
                               SetWk(w, AfterChunk(r, chunk, a_end, rnd, rdi, t,
                                 BertInstance(m, AssembleSeg(t.a, t.b), rnd, cfg.seq_length)))
    /\ UNCHANGED <<cfg, returned, part, ld, fn>>

\* The while loop ends: create_ins_from_doc returns; build_instances goes on
\* with the next document, the next duplicate, or returns to the worker,
\* which dumps the instances and, at the flush in the loop, clears the
\* buffer, or else leaves the loop and closes the shard.
CreateInsReturn(w) ==
    /\ Running(w) /\ wk[w].pc = "build" /\ wk[w].bs = "loop"
    /\ wk[w].i >= Len(wk[w].docs_buffer[wk[w].doc_index + 1])
    /\ LET r == wk[w]
       IN  SetWk(w,
             IF r.doc_index + 1 < Len(r.docs_buffer)
             THEN [r EXCEPT !.doc_index = r.doc_index + 1, !.bs = "enter"]
             ELSE IF r.dup + 1 < cfg.dup_factor
             THEN [r EXCEPT !.dup = r.dup + 1, !.doc_index = 0, !.bs = "enter"]
             ELSE IF r.after = "read"
             THEN [r EXCEPT !.shard = Append(r.shard, r.instances), !.docs_buffer = <<>>,
                            !.instances = <<>>, !.pc = "read", !.bs = "none"]
             ELSE [r EXCEPT !.shard = Append(r.shard, r.instances), !.pc = "done",
                            !.bs = "none"])
    /\ UNCHANGED <<cfg, returned, part, ld, fn>>

(***************************************************************************)
(* BertDataset.worker and NspDataset.worker.                               *)
(***************************************************************************)
\* One turn of "while pos < start": a line is read and counted.
BertSkip(w) ==
    /\ Running(w) /\ cfg.task = "bert" /\ wk[w].pc = "skip"
    /\ LET r == wk[w]
       IN  SetWk(w, IF r.pos < r.start
                    THEN [r EXCEPT !.f = LineEnd(cfg.corpus, r.f), !.pos = r.pos + 1]
                    ELSE [r EXCEPT !.pc = "read"])
    /\ UNCHANGED <<cfg, returned, part, ld, fn>>

\* One turn of the read loop of BertDataset.worker.  pos counts every
\* readline; a blank line (the empty string at end of file too) ends with
\* continue, before the test of pos against end.
BertRead(w) ==
    /\ Running(w) /\ cfg.task = "bert" /\ wk[w].pc = "read"
    /\ wk[w].f < Len(cfg.corpus) \/ wk[w].spins < MaxSpin
    /\ LET r == wk[w]
           line == ReadLine(cfg.corpus, r.f)
           r1 == [r EXCEPT !.f = LineEnd(cfg.corpus, r.f), !.pos = r.pos + 1,
                           !.read_any = TRUE,
                           !.spins = IF r.f = Len(cfg.corpus) THEN r.spins + 1 ELSE r.spins]
       IN  IF Strip(line) = <<>>
           THEN LET r2 == [r1 EXCEPT !.document = <<>>,
                                     !.docs_buffer = IF Len(r.document) >= 1
                                                     THEN Append(r.docs_buffer, r.document)
                                                     ELSE r.docs_buffer,
                                     !.closed = IF Len(r.document) >= 1
                                                THEN Append(r.closed, r.document)
                                                ELSE r.closed]
                IN  SetWk(w, IF Len(r2.docs_buffer) = cfg.buffer_size
                             THEN EnterBuild(r2, "read") ELSE r2)
           ELSE LET sentence == TokenIds(line)
                    r2 == [r1 EXCEPT !.document = IF Len(sentence) > 0
                                                  THEN Append(r.document, sentence)
                                                  ELSE r.document]
                IN  SetWk(w, IF r2.pos >= r.end - 1
                             THEN IF Len(r.docs_buffer) > 0 THEN EnterBuild(r2, "done")
                                  ELSE [r2 EXCEPT !.pc = "done"]
                             ELSE r2)
    /\ UNCHANGED <<cfg, returned, part, ld, fn>>

\* One turn of the read loop of NspDataset.worker.
NspRead(w) ==
    /\ Running(w) /\ cfg.task = "nsp" /\ wk[w].pc = "read"
    /\ LET r == wk[w]
           line == ReadLine(cfg.corpus, r.f)
           nf == LineEnd(cfg.corpus, r.f)
           r1 == [r EXCEPT !.f = nf, !.read_any = TRUE]
       IN  IF Strip(line) = <<>>
           THEN SetWk(w, [r1 EXCEPT !.document = <<>>,
                                    !.docs_buffer = IF Len(r.document) >= 1
                                                    THEN Append(r.docs_buffer, r.document)
                                                    ELSE r.docs_buffer,
                                    !.closed = IF Len(r.document) >= 1
                                               THEN Append(r.closed, r.document)
                                               ELSE r.closed])
           ELSE LET r2 == [r1 EXCEPT !.document = Append(r.document, TokenIds(line)),
                                     !.pos = nf]
                IN  SetWk(w, IF nf >= r.end
                             THEN IF Len(r.docs_buffer) > 0 THEN EnterBuild(r2, "done")
                                  ELSE [r2 EXCEPT !.pc = "done"]
                             ELSE r2)
    /\ UNCHANGED <<cfg, returned, part, ld, fn>>

DocWorkers ==
    \E w \in Workers : BertSkip(w) \/ BertRead(w) \/ NspRead(w)
                         \/ CreateInsEnter(w) \/ CreateInsIter(w) \/ CreateInsReturn(w)

LineWorkers == \E w \in Workers : LmRead(w) \/ ClsRead(w) \/ S2sRead(w) \/ MlmRead(w)

(***************************************************************************)
(* The shard loaders.  A shard file is the sequence of its pickled         *)
(* batches; fpos counts the batches the file cursor has passed.  The       *)
(* loader treats an instance as an opaque value: instances are numbered in *)
(* file order.  Only the yielded slice depends on proc_id, so the state    *)
(* stands for the loaders of every proc_id in 0..proc_num-1 stepped        *)
(* together with the same shuffles, and out[p] is what the loader with     *)
(* proc_id = p yields.                                                     *)
(*                                                                         *)
(* kind "bert" is BertDataLoader; "nsp" is NspDataLoader; "line" is        *)
(* LmDataLoader, ClsDataLoader, MlmDataLoader and S2sDataLoader, whose     *)
(* code is the same.  The files are those a worker writes: any number of   *)
(* non-empty batches for BertDataset, at most one for NspDataset, exactly  *)
(* one for the line builders.                                              *)
(***************************************************************************)
LdIdle == [kind |-> "none"]

RECURSIVE FileOf(_, _)
\* The file whose batches have the sizes in sizes, its first instance
\* numbered first.
FileOf(sizes, first) ==
    IF sizes = <<>> THEN <<>>
    ELSE <<[k \in 1..Head(sizes) |-> first + k - 1]>>
             \o FileOf(Tail(sizes), first + Head(sizes))

\* The sequences of batch sizes (each >= 1) of a file with at most
\* MaxInstances instances.
BatchSizes ==
    {sizes \in UNION {[1..k -> 1..MaxInstances] : k \in 0..MaxInstances} :
        SeqSum(sizes) <= MaxInstances}

LoaderFiles(kind) ==
    {FileOf(sizes, 1) :
        sizes \in {z \in BatchSizes : CASE kind = "bert" -> TRUE
                                        [] kind = "nsp" -> Len(z) <= 1
                                        [] OTHER -> Len(z) = 1}}

\* The bytes of a shard: pickle.dump appends one self-delimiting frame per
\* batch, here the number of instances and then the instances.
PickleDump(stream, batch) == stream \o <<Len(batch)>> \o batch

\* The stream after the dumps of the batches in turn.
RECURSIVE Dumps(_)
Dumps(batches) ==
    IF batches = <<>> THEN <<>>
    ELSE PickleDump(Dumps(Front(batches)), batches[Len(batches)])

\* The batches successive calls of pickle.load return from offset pos until
\* EOFError.
RECURSIVE PickleLoads(_, _)
PickleLoads(stream, pos) ==
    IF pos >= Len(stream) THEN <<>>
    ELSE <<SubSeq(stream, pos + 2, pos + 1 + stream[pos + 1])>>
             \o PickleLoads(stream, pos + 1 + stream[pos + 1])

\* written is what the worker dumped, file what the loads return.
LoaderInit ==
    \E kind \in {"bert", "nsp", "line"} : \E w \in LoaderFiles(kind) :
        ld \in [kind : {kind}, written : {w}, file : {PickleLoads(Dumps(w), 0)},
                batch_size : 1..MaxBatchSize, proc_num : 1..MaxProcNum,
                shuffle : BOOLEAN,
                buffer_size : IF kind = "bert" THEN 1..MaxBufferSize ELSE {0},
                fpos : {0}, repeat_read_dataset : {FALSE},
                start : {0}, end : {0}, buffer : {<<>>},
                out : {<<>>}, ystart : {0}, err : {FALSE},
                fills : {0}, did : {"new"}, reread : {FALSE},
                given : {{}}, twice : {FALSE},
                age : {[b \in 1..Len(w) |-> 0]}]

\* random.shuffle(buffer): any order.
RECURSIVE ShuffleOrders(_)
ShuffleOrders(s) ==
    IF s = <<>> THEN {<<>>}
    ELSE UNION {{<<s[k]>> \o t :
                    t \in ShuffleOrders(SubSeq(s, 1, k - 1) \o SubSeq(s, k + 1, Len(s)))} :
                k \in 1..Len(s)}

Shuffled(l, buf) == IF l.shuffle THEN ShuffleOrders(buf) ELSE {buf}

\* The read loop of BertDataLoader._fill_buf from the file cursor fpos with
\* the buffer buf: [buffer, fpos, repeat].
RECURSIVE ReadLoopBad(_, _, _, _, _)
ReadLoopBad(file, fpos, buf, repeat, buffer_size) ==
    IF fpos < Len(file)
    THEN IF Len(file[fpos + 1] \o buf) > buffer_size
         THEN [buffer |-> file[fpos + 1] \o buf, fpos |-> fpos + 1, repeat |-> TRUE]
         ELSE ReadLoopBad(file, fpos + 1, file[fpos + 1] \o buf, repeat, buffer_size)
    ELSE IF ~repeat
    THEN [buffer |-> buf, fpos |-> fpos, repeat |-> repeat]
    ELSE IF Len(file[1] \o buf) > buffer_size
    THEN [buffer |-> file[1] \o buf, fpos |-> 1, repeat |-> TRUE]
    ELSE ReadLoopBad(file, 1, file[1] \o buf, repeat, buffer_size)
RECURSIVE ReadLoopEager(_, _, _, _, _)
ReadLoopEager(file, fpos, buf, repeat, buffer_size) ==
    IF fpos < Len(file)
    THEN IF Len(buf \o file[fpos + 1]) >= buffer_size
         THEN [buffer |-> buf \o file[fpos + 1], fpos |-> fpos + 1, repeat |-> TRUE]
         ELSE ReadLoopEager(file, fpos + 1, buf \o file[fpos + 1], repeat, buffer_size)
    ELSE IF ~repeat
    THEN [buffer |-> buf, fpos |-> fpos, repeat |-> repeat]
    ELSE IF Len(buf \o file[1]) >= buffer_size
    THEN [buffer |-> buf \o file[1], fpos |-> 1, repeat |-> TRUE]
    ELSE ReadLoopEager(file, 1, buf \o file[1], repeat, buffer_size)
RECURSIVE ReadLoopStop(_, _, _, _, _)
ReadLoopStop(file, fpos, buf, repeat, buffer_size) ==
    IF fpos < Len(file)
    THEN IF Len(buf \o file[fpos + 1]) > buffer_size
         THEN [buffer |-> buf \o file[fpos + 1], fpos |-> fpos + 1, repeat |-> TRUE]
         ELSE ReadLoopStop(file, fpos + 1, buf \o file[fpos + 1], repeat, buffer_size)
    ELSE [buffer |-> buf, fpos |-> fpos, repeat |-> repeat]
RECURSIVE ReadLoop(_, _, _, _, _)
ReadLoop(file, fpos, buf, repeat, buffer_size) ==
    IF fpos < Len(file)
    THEN IF Len(buf \o file[fpos + 1]) > buffer_size
         THEN [buffer |-> buf \o file[fpos + 1], fpos |-> fpos + 1, repeat |-> TRUE]
         ELSE ReadLoop(file, fpos + 1, buf \o file[fpos + 1], repeat, buffer_size)
    ELSE IF ~repeat
    THEN [buffer |-> buf, fpos |-> fpos, repeat |-> repeat]
    ELSE IF Len(buf \o file[1]) > buffer_size
    THEN [buffer |-> buf \o file[1], fpos |-> 1, repeat |-> TRUE]
    ELSE ReadLoop(file, 1, buf \o file[1], repeat, buffer_size)

\* _empty
Empty(l) == l.start + l.batch_size * l.proc_num >= l.end

\* The slice of __iter__ for every proc_id, and start += batch_size*proc_num.
\* l is the loader after the refill, if there was one.
Yield(l) ==
    LET slice(p) == Slice(l.buffer, l.start + p * l.batch_size,
                          l.start + (p + 1) * l.batch_size)
        pos == {k \in l.start..(l.start + l.proc_num * l.batch_size - 1) : k < Len(l.buffer)}
    IN  [l EXCEPT !.out = [p \in 0..(l.proc_num - 1) |-> slice(p)],
                  !.ystart = l.start,
                  !.start = l.start + l.batch_size * l.proc_num,
                  !.twice = (pos \cap l.given # {}),
                  !.given = l.given \cup pos]

\* age[b] counts the refills from the file since batch b was last loaded
\* (up to the number of batches).
Refilled(l, buf, how) ==
    [l EXCEPT !.buffer = buf, !.start = 0, !.end = Len(buf), !.given = {},
              !.fills = Min(l.fills + 1, 2), !.did = how,
              !.reread = l.reread \/ (how = "read" /\ l.fills >= 1),
              !.age = IF how # "read" THEN l.age
                      ELSE [b \in 1..Len(l.file) |->
                               IF \A x \in 1..Len(l.file[b]) :
                                      \E k \in 1..Len(buf) : buf[k] = l.file[b][x]
                               THEN 0 ELSE Min(l.age[b] + 1, Len(l.file))]]

\* BertDataLoader._fill_buf takes its first branch when the buffer holds
\* instances and the loader is not in repeat-read mode.
KeepsBufferBad(l) == Len(l.buffer) > 0 /\ l.repeat_read_dataset
KeepsBuffer(l) == Len(l.buffer) > 0 /\ ~l.repeat_read_dataset

\* A turn of __iter__ in which _empty() is false.
IterNoFill ==
    /\ ld.kind \in {"bert", "nsp", "line"} /\ ~ld.err
    /\ ~Empty(ld)
    /\ ld' = Yield([ld EXCEPT !.did = "none"])
    /\ UNCHANGED <<part, cfg, wk, returned, fn>>

\* A turn of BertDataLoader.__iter__ whose _fill_buf reshuffles the buffer.
BertIterReshuffle ==
    /\ ld.kind = "bert" /\ ~ld.err
    /\ Empty(ld) /\ KeepsBuffer(ld)
    /\ \E buf \in Shuffled(ld, ld.buffer) : ld' = Yield(Refilled(ld, buf, "shuffle"))
    /\ UNCHANGED <<part, cfg, wk, returned, fn>>

\* A turn of BertDataLoader.__iter__ whose _fill_buf reads the file.
BertIterRead ==
    /\ ld.kind = "bert" /\ ~ld.err
    /\ Empty(ld) /\ ~KeepsBuffer(ld)
    /\ LET rd == ReadLoop(ld.file, ld.fpos, <<>>, ld.repeat_read_dataset, ld.buffer_size)
       IN  \E buf \in Shuffled(ld, rd.buffer) :
               ld' = Yield(Refilled([ld EXCEPT !.fpos = rd.fpos,
                                               !.repeat_read_dataset = rd.repeat],
                                    buf, "read"))
    /\ UNCHANGED <<part, cfg, wk, returned, fn>>

\* A turn of __iter__ of a single-batch loader with a refill: pickle.load,
\* and at end of file seek(0) and pickle.load again, whose EOFError nothing
\* catches.
SingleIterFill ==
    /\ ld.kind \in {"nsp", "line"} /\ ~ld.err
    /\ Empty(ld)
    /\ IF ld.fpos < Len(ld.file)
       THEN \E buf \in Shuffled(ld, ld.file[ld.fpos + 1]) :
                ld' = Yield(Refilled([ld EXCEPT !.fpos = ld.fpos + 1], buf, "read"))
       ELSE IF Len(ld.file) > 0
       THEN \E buf \in Shuffled(ld, ld.file[1]) :
                ld' = Yield(Refilled([ld EXCEPT !.fpos = 1], buf, "read"))
       ELSE ld' = [ld EXCEPT !.err = TRUE, !.fpos = 0]
    /\ UNCHANGED <<part, cfg, wk, returned, fn>>

LoaderNext == IterNoFill \/ BertIterReshuffle \/ BertIterRead \/ SingleIterFill

(***************************************************************************)
(* The specifications: the partitioner alone, a loader alone, and a build  *)
(* (build_and_save with its workers).                                     *)
(***************************************************************************)
PartSpecInit == PartInit /\ BuildIdle /\ ld = LdIdle /\ fn = FnIdle
PartNext == (PartInline \/ PartSubmit) /\ UNCHANGED <<cfg, wk, returned, ld, fn>>
PartSpec == PartSpecInit /\ [][PartNext]_vars

LoaderSpecInit == LoaderInit /\ BuildIdle /\ part = PartIdle /\ fn = FnIdle
LoaderSpec == LoaderSpecInit /\ [][LoaderNext]_vars

MaskSpecInit == MaskInit /\ BuildIdle /\ part = PartIdle /\ ld = LdIdle
MaskSpec == MaskSpecInit /\ [][MaskCall]_vars

TruncSpecInit == TruncInit /\ BuildIdle /\ part = PartIdle /\ ld = LdIdle
TruncNext == TruncBreak \/ TruncRemove
TruncSpec == TruncSpecInit /\ [][TruncNext]_vars

\* random.randint draws each id with the same probability, so a rejection
\* loop that can accept a draw does not reject for ever.
MaskStepInit == StepInit /\ BuildIdle /\ part = PartIdle /\ ld = LdIdle
MaskStepNext == MaskToken \/ MaskDraw \/ MaskReturn
MaskStepSpec ==
    MaskStepInit /\ [][MaskStepNext]_vars
        /\ WF_vars(MaskToken) /\ WF_vars(MaskDrawAccept) /\ WF_vars(MaskReturn)

LmSpecInit == LmInit /\ BuildIdle /\ part = PartIdle /\ ld = LdIdle
LmSpec == LmSpecInit /\ [][LmCall]_vars

Init == BuildInit /\ part = PartIdle /\ ld = LdIdle /\ fn = FnIdle
Next == build_and_save \/ Join \/ LineWorkers \/ DocWorkers
Spec == Init /\ [][Next]_vars

(***************************************************************************)
(* Properties.                                                             *)
(***************************************************************************)
Range(s) == {s[k] : k \in 1..Len(s)}

\* The positions of an instance that hold sequences.
SeqFields(task) ==
    CASE task = "bert" -> {1, 2, 4}
      [] task \in {"nsp", "cls"} -> {1, 3}
      [] OTHER -> {1, 2, 3}

\* Every instance worker w has built so far or written to its shard.
Emitted(w) == Range(wk[w].instances) \cup Range(Flatten(wk[w].shard))

\* C1: every instance a builder emits has each sequence field (src, seg, and
\* the target when it is a sequence) of exactly seq_length entries.
C1_FixedLength ==
    \A w \in Workers : \A ins \in Emitted(w) : \A k \in SeqFields(cfg.task) :
        Len(ins[k]) = cfg.seq_length

\* A BertDataset worker has closed a shard that holds an instance whose src
\* was padded and one whose src needed no padding.
C1_Witness ==
    \E w \in Workers :
        /\ cfg.task = "bert" /\ wk[w].pc = "done"
        /\ \E ins \in Range(Flatten(wk[w].shard)) : ins[1][cfg.seq_length] = PAD_ID
        /\ \E ins \in Range(Flatten(wk[w].shard)) : ins[1][cfg.seq_length] = SEP_ID

\* C2: every build worker terminates: a worker that has read up to the end
\* of a corpus that is not empty has left its read loop (no line is left
\* to bring it to its end test), so that build_and_save returns.
C2_LeavesLoopAtEof ==
    \A w \in Workers :
        Len(cfg.corpus) > 0 /\ wk[w].pc = "read" /\ wk[w].read_any
            => wk[w].f < Len(cfg.corpus)

\* The lines of corpus c from offset off on, each with its offset.
RECURSIVE CorpusLines(_, _)
CorpusLines(c, off) ==
    IF off >= Len(c) THEN <<>>
    ELSE <<[text |-> ReadLine(c, off), at |-> off]>> \o CorpusLines(c, LineEnd(c, off))

\* The documents of the corpus that a blank line terminates, in order, each
\* with the line number (from 0) and the offset of that blank line; doc is
\* the document open before line k.
RECURSIVE DocsOf(_, _, _)
DocsOf(lines, k, doc) ==
    IF k > Len(lines) THEN <<>>
    ELSE IF Strip(lines[k].text) = <<>>
    THEN (IF doc # <<>> THEN <<[doc |-> doc, line |-> k - 1, at |-> lines[k].at]>>
          ELSE <<>>) \o DocsOf(lines, k + 1, <<>>)
    ELSE LET sentence == TokenIds(lines[k].text)
         IN  DocsOf(lines, k + 1,
                    IF cfg.task = "bert" /\ sentence = <<>> THEN doc
                    ELSE Append(doc, sentence))

\* The documents whose terminating blank line lies in the range of worker w.
DocsInRange(w) ==
    LET InRange(d) == IF cfg.task = "bert"
                      THEN wk[w].start <= d.line /\ d.line < wk[w].end
                      ELSE wk[w].start <= d.at /\ d.at < wk[w].end
        sel == SelectSeq(DocsOf(CorpusLines(cfg.corpus, 0), 1, <<>>), InRange)
    IN  [k \in 1..Len(sel) |-> sel[k].doc]

\* C3: the documents a finished BertDataset or NspDataset worker has passed
\* to the instance builder are exactly the documents whose terminating blank
\* line lies in the worker's range.
C3_DocsOfRange ==
    \A w \in Workers :
        cfg.task \in DocTasks /\ wk[w].pc = "done"
            => Flatten(wk[w].built) = DocsInRange(w)

\* C4: the ranges handed out so far are contiguous from 0, each is
\* [i*n//W, (i+1)*n//W) (or [0, n) for W = 1), and once all W are handed out
\* the last ends at n, so they are pairwise disjoint and cover [0, n).
C4_RangesPartition ==
    LET r == part.ranges
    IN  /\ \A k \in 1..Len(r) : 0 <= r[k][1] /\ r[k][1] <= r[k][2] /\ r[k][2] <= part.n
        /\ Len(r) > 0 => r[1][1] = 0
        /\ \A k \in 1..(Len(r) - 1) : r[k + 1][1] = r[k][2]
        /\ \A k \in 1..Len(r) : \A j \in 1..Len(r) :
               k # j => (r[k][1]..(r[k][2] - 1)) \cap (r[j][1]..(r[j][2] - 1)) = {}
        /\ part.W >= 1 /\ part.i = part.W =>
               /\ Len(r) = part.W
               /\ r[Len(r)][2] = part.n
               /\ UNION {r[k][1]..(r[k][2] - 1) : k \in 1..Len(r)} = 0..(part.n - 1)

\* All ranges are handed out for a size the worker count does not divide.
C4_Witness ==
    part.W >= 3 /\ part.i = part.W /\ part.n % part.W # 0 /\ part.n > part.W

\* C5: in create_ins_from_doc of NspDataset and BertDataset (max_num_tokens
\* >= 2) no assertion on the segments fails, and after truncate_seq_pair
\* both segments hold a token and fit seq_length with the three markers.
C5_SegmentsNonEmpty ==
    \A w \in Workers :
        /\ wk[w].err = ""
        /\ wk[w].last.set =>
               /\ Len(wk[w].last.a) >= 1
               /\ Len(wk[w].last.b) >= 1
               /\ 3 + Len(wk[w].last.a) + Len(wk[w].last.b) <= cfg.seq_length

\* The number of instances of the shard.
ShardTotal == Len(Flatten(ld.file))

\* After its first refill a BertDataLoader on a shard that fits the buffer
\* has read the shard to its end, never read it again, met no error, and
\* holds each instance of the shard once.
ReadOnce ==
    ld.fills >= 1 =>
        /\ ~ld.err /\ ~ld.reread /\ ~ld.repeat_read_dataset
        /\ ld.fills >= 2 => ld.did # "read"
        /\ ld.fpos = Len(ld.file)
        /\ Len(ld.buffer) = ShardTotal
        /\ Range(ld.buffer) = Range(Flatten(ld.file))

RECURSIVE Slices(_)
Slices(p) == IF p < 0 THEN <<>> ELSE Slices(p - 1) \o ld.out[p]

\* C7: every step of a loader yields, to every proc_id, exactly batch_size
\* instances, buffer[start + proc_id*batch_size : start + (proc_id+1)*
\* batch_size], and advances start by proc_num*batch_size.
C7_FullBatch ==
    ld.kind # "none" /\ ld.did # "new" /\ ~ld.err =>
        /\ \A p \in 0..(ld.proc_num - 1) :
               /\ Len(ld.out[p]) = ld.batch_size
               /\ ld.out[p] = Slice(ld.buffer, ld.ystart + p * ld.batch_size,
                                    ld.ystart + (p + 1) * ld.batch_size)
        /\ ld.start = ld.ystart + ld.proc_num * ld.batch_size

\* C8: for the loaders of proc_id 0..proc_num-1 in lock-step, the slices of
\* a step do not overlap, no position is yielded twice between two refills,
\* and the slices together are the stride [start, start + proc_num*
\* batch_size) of the buffer.
C8_DisjointStride ==
    ld.kind # "none" /\ ld.did # "new" /\ ~ld.err =>
        /\ \A p \in 0..(ld.proc_num - 1) : \A q \in 0..(ld.proc_num - 1) :
               p # q => Range(ld.out[p]) \cap Range(ld.out[q]) = {}
        /\ ~ld.twice
        /\ Len(Slices(ld.proc_num - 1)) = ld.proc_num * ld.batch_size
        /\ Slices(ld.proc_num - 1)
               = Slice(ld.buffer, ld.ystart, ld.ystart + ld.proc_num * ld.batch_size)

\* C9: the end of the file met in a refill never surfaces as an error.
C9_NoEofError == ~ld.err

\* C10: a malformed line is skipped and the ClsDataset or S2sDataset worker
\* with a range that is not empty still stops at its range end: while it is
\* in its read loop after a read, its cursor is before end, so it reads no
\* line of the next range.
C10_StopsAtRangeEnd ==
    \A w \in Workers :
        /\ cfg.task \in {"cls", "s2s"} /\ wk[w].start < wk[w].end
        /\ wk[w].pc = "read" /\ wk[w].read_any
        => wk[w].f < wk[w].end

\* What mask_seq did at position k of its input: the token is unchanged and
\* its target is PAD, or the target is the original id.
MaskedRight(k) ==
    LET token == fn.src[k]
        new == fn.out[1][k]
        tgt == fn.out[2][k]
    IN  IF token = CLS_ID \/ token = SEP_ID
        THEN new = token /\ tgt = PAD_ID
        ELSE \/ tgt = token
             \/ new = token /\ tgt = PAD_ID

\* The original read off (src, tgt_mlm): the target where it is not PAD, the
\* source elsewhere.
Recovered == [k \in 1..Len(fn.out[1]) |->
                 IF fn.out[2][k] # PAD_ID THEN fn.out[2][k] ELSE fn.out[1][k]]

\* C11 as amended: mask_seq returns src and tgt_mlm of the input's length;
\* at every position a CLS or SEP is unchanged with target PAD, any other
\* token is unchanged with target PAD or has the original id as its target,
\* so src differs from the input only where the target is the original id;
\* and when no input token is PAD the input is recovered position by
\* position from (src, tgt_mlm).
C11_MaskedOrUnchanged ==
    fn.op = "mask_seq" /\ fn.returned =>
        /\ Len(fn.out[1]) = Len(fn.src) /\ Len(fn.out[2]) = Len(fn.src)
        /\ \A k \in 1..Len(fn.src) : MaskedRight(k)
        /\ \A k \in 1..Len(fn.src) : fn.out[1][k] # fn.src[k] => fn.out[2][k] = fn.src[k]
        /\ (\A k \in 1..Len(fn.src) : fn.src[k] # PAD_ID) => Recovered = fn.src

\* mask_seq has returned with one token replaced by MASK, one replaced by a
\* random id and a SEP left alone.
C11_Witness ==
    /\ fn.op = "mask_seq" /\ fn.returned /\ Len(fn.src) = 3
    /\ \E k \in 1..3 : fn.src[k] = SEP_ID
    /\ \E k \in 1..3 : fn.src[k] # MASK_ID /\ fn.out[1][k] = MASK_ID
    /\ \E k \in 1..3 : fn.out[1][k] \notin {fn.src[k], MASK_ID}

\* C11: as above, and the input is recoverable from (src, tgt_mlm) for every
\* input: no other input of mask_seq can return the same (src, tgt_mlm).
C11_Recoverable ==
    fn.op = "mask_seq" /\ fn.returned =>
        /\ Len(fn.out[1]) = Len(fn.src) /\ Len(fn.out[2]) = Len(fn.src)
        /\ \A k \in 1..Len(fn.src) : MaskedRight(k)
        /\ \A other \in [1..Len(fn.src) -> 0..(VocabSize - 1)] :
               fn.out \in mask_seq(other, VocabSize) => other = fn.src

\* s is a run of consecutive elements of s0.
Contiguous(s, s0) == \E i \in 1..(Len(s0) + 1) : s = SubSeq(s0, i, i + Len(s) - 1)

\* C12: truncate_seq_pair takes one token per turn from the front or the
\* back of the list that is strictly longer at that turn (tokens_b when the
\* lengths are equal), never raises, and ends after max(0, len(A) + len(B) -
\* max_num_tokens) turns with contiguous sub-sequences of the inputs of
\* total length min(len(A) + len(B), max_num_tokens); a pair within the
\* limit is left unchanged.
C12_TruncatesLonger ==
    fn.op = "truncate_seq_pair" =>
        LET total0 == Len(fn.a0) + Len(fn.b0)
            total == Len(fn.a) + Len(fn.b)
        IN  /\ fn.pc # "raised"
            /\ Contiguous(fn.a, fn.a0) /\ Contiguous(fn.b, fn.b0)
            /\ fn.turns = total0 - total
            /\ fn.turns <= Max(0, total0 - fn.max_num_tokens)
            /\ fn.from = "a" => fn.pa > fn.pb /\ Len(fn.a) = fn.pa - 1 /\ Len(fn.b) = fn.pb
            /\ fn.from = "b" => fn.pa <= fn.pb /\ Len(fn.b) = fn.pb - 1 /\ Len(fn.a) = fn.pa
            /\ fn.pc = "done" =>
                   /\ total = Min(total0, fn.max_num_tokens)
                   /\ fn.turns = Max(0, total0 - fn.max_num_tokens)
                   /\ total0 <= fn.max_num_tokens => fn.a = fn.a0 /\ fn.b = fn.b0
                   /\ [a |-> fn.a, b |-> fn.b, err |-> FALSE]
                          \in truncate_seq_pair(fn.a0, fn.b0, fn.max_num_tokens)

\* truncate_seq_pair has ended after taking tokens from both lists, the
\* last one from tokens_b at equal lengths, and a token from the front and
\* one from the back of tokens_a.
C12_Witness ==
    /\ fn.op = "truncate_seq_pair" /\ fn.pc = "done"
    /\ fn.from = "b" /\ fn.pa = fn.pb
    /\ Len(fn.a) + 2 <= Len(fn.a0) /\ Len(fn.b) < Len(fn.b0)
    /\ fn.a # <<>> /\ Head(fn.a) # Head(fn.a0) /\ fn.a[Len(fn.a)] # fn.a0[Len(fn.a0)]

\* The n batches written before the cursor, the shard taken as a cycle, in
\* write order.
RunBefore(n) ==
    [k \in 1..n |-> ld.written[((ld.fpos - n + k - 1 + Len(ld.written)) % Len(ld.written)) + 1]]

\* C13: what a worker dumps is what a loader loads, so with shuffling
\* disabled the buffer after a refill is the concatenation, in write order,
\* of the batches the refill read (the batches written just before the file
\* cursor; one batch for the single-batch loaders), each instance as
\* written.
C13_RoundTrip ==
    /\ ld.kind # "none" => ld.file = ld.written
    /\ ld.kind # "none" /\ ~ld.shuffle /\ ld.did \in {"read", "shuffle"} /\ ~ld.err =>
           IF ld.written = <<>> THEN ld.buffer = <<>>
           ELSE /\ \E n \in 0..Len(ld.written) : ld.buffer = Flatten(RunBefore(n))
                /\ ld.kind # "bert" => ld.buffer = ld.written[ld.fpos]
                /\ ld.kind = "bert" /\ ~ld.repeat_read_dataset
                       => ld.buffer = Flatten(ld.written)

\* A BertDataLoader without shuffling has refilled its buffer with the last
\* batch of the shard followed by the first.
C13_Witness ==
    /\ ld.kind = "bert" /\ ~ld.shuffle /\ ld.did = "read" /\ ld.repeat_read_dataset
    /\ Len(ld.written) >= 3 /\ Len(ld.buffer) >= 2
    /\ ld.buffer[1] > ld.buffer[2]

\* The lines a worker has read from the offset its range starts at up to its
\* file cursor.
LinesRead(w) ==
    LET InFront(l) == l.at < wk[w].f
    IN  SelectSeq(CorpusLines(cfg.corpus, wk[w].start), InFront)

\* The integer a string of digits writes.
RECURSIVE Decimal(_)
Decimal(d) == IF d = <<>> THEN 0 ELSE 10 * Decimal(Front(d)) + DigitVal(d[Len(d)])

\* The instance C15 describes for the label digits and the ids of the text.
ClsExpected(digits, ids) ==
    LET L == cfg.seq_length
        n == Min(Len(ids), L)
    IN  <<[k \in 1..L |-> IF k <= n THEN ids[k] ELSE PAD_ID],
          Decimal(digits),
          [k \in 1..L |-> IF k <= n THEN 1 ELSE PAD_ID]>>

\* A line "<label>TAB<text>": the offset of its first TAB, 0 when it is not
\* of that form (no TAB, no label digits, or no text).
LabelEnd(line) ==
    LET t == Strip(line)
        tabs == {k \in 1..Len(t) : t[k] = TAB}
    IN  IF tabs = {} THEN 0
        ELSE IF SetMin(tabs) = 1 \/ \E k \in 1..(SetMin(tabs) - 1) : ~IsDigit(t[k])
        THEN 0
        ELSE SetMin(tabs)

\* The text of such a line: up to the next TAB or the end of the line.
TextOf(line) ==
    LET t == Strip(line)
        rest == SubSeq(t, LabelEnd(line) + 1, Len(t))
        tabs == {k \in 1..Len(rest) : rest[k] = TAB}
    IN  IF tabs = {} THEN rest ELSE SubSeq(rest, 1, SetMin(tabs) - 1)

\* The instances C15 describes for the lines in lines, in order.
RECURSIVE ClsExpectedAll(_)
ClsExpectedAll(lines) ==
    IF lines = <<>> THEN <<>>
    ELSE LET line == Head(lines).text
         IN  (IF LabelEnd(line) = 0 THEN <<>>
              ELSE <<ClsExpected(SubSeq(Strip(line), 1, LabelEnd(line) - 1),
                                 TokenIds(TextOf(line)))>>)
                 \o ClsExpectedAll(Tail(lines))

\* C15: for each line "<label>TAB<text>" it has read, and for no other
\* line, a ClsDataset worker has emitted (src, label, seg): src the first
\* min(n, seq_length) ids of the text and PAD up to seq_length, label the
\* integer, seg 1 at the real-token positions and PAD at the padded ones.
C15_ClsInstance ==
    \A w \in Workers :
        cfg.task = "cls" /\ wk[w].pc \in {"read", "done"}
            => wk[w].instances = ClsExpectedAll(LinesRead(w))

\* A ClsDataset worker has closed its shard with the instance of a line of
\* label 1 and two tokens, padded to seq_length 3.
C15_Witness ==
    \E w \in Workers :
        /\ cfg.task = "cls" /\ wk[w].pc = "done" /\ cfg.seq_length = 3
        /\ \E k \in 1..Len(wk[w].instances) :
               wk[w].instances[k] = <<<<X_ID, X_ID, PAD_ID>>, 1, <<1, 1, PAD_ID>>>>

\* C16: whenever BertDataset or NspDataset emits an instance labelled
\* is_random_next = 1, its segment B comes from a document of the buffer
\* whose index differs from the current document's.
C16_OtherDocument ==
    \A w \in Workers :
        wk[w].last.set /\ wk[w].last.rnd = 1 => wk[w].last.rdoc # wk[w].last.doc

\* The document a worker's create_ins_from_doc is working on.
CurrentDoc(w) == wk[w].docs_buffer[wk[w].doc_index + 1]

\* C17: the rewind after a random-next split is len(current_chunk) - a_end,
\* at most len(current_chunk) - 1; the cursor after a chunk is the first
\* unused sentence (chunk start + a_end, or the sentence after the chunk
\* when all were used), never before the chunk and at least one sentence
\* past its start, so the cursor stays within the document and the start of
\* the open chunk only moves forward until the loop ends.
C17_RewindBounded ==
    \A w \in Workers :
        /\ wk[w].last.set =>
               LET l == wk[w].last
                   rewind == IF l.rnd = 1 THEN l.clen - l.a_end ELSE 0
               IN  /\ 1 <= l.a_end /\ l.a_end <= l.clen
                   /\ rewind <= l.clen - 1
                   /\ l.next = (l.cs + l.clen - 1) - rewind + 1
                   /\ l.rnd = 1 => l.next = l.cs + l.a_end
                   /\ l.next > l.cs
        /\ wk[w].pc = "build" /\ wk[w].bs = "loop" =>
               /\ 0 <= wk[w].i - Len(wk[w].chunk)
               /\ wk[w].i <= Len(CurrentDoc(w))
               /\ wk[w].made <= wk[w].i - Len(wk[w].chunk)

\* A random-next split has left the second sentence of a chunk of two
\* unused and the cursor on it.
C17_Witness ==
    \E w \in Workers :
        /\ wk[w].last.set /\ wk[w].last.rnd = 1
        /\ wk[w].last.clen = 2 /\ wk[w].last.a_end = 1
        /\ wk[w].pc = "build" /\ wk[w].bs = "loop" /\ wk[w].chunk = <<>>
        /\ wk[w].i = wk[w].last.cs + 1

\* C18: in a pass of create_ins_from_doc the sentences placed in a segment A
\* or an actual-next segment B are, in order and once each, the sentences
\* before the open chunk (all of them when the pass ends); the open chunk is
\* the run of sentences up to the cursor and has not reached
\* target_seq_length; a chunk closes on reaching it or on the last
\* sentence; and a pass that ends has emitted an instance.
C18_EverySentenceOnce ==
    \A w \in Workers :
        /\ wk[w].pc = "build" /\ wk[w].bs = "loop" =>
               LET doc == CurrentDoc(w)
                   cs == wk[w].i - Len(wk[w].chunk)
               IN  /\ wk[w].placed = SubSeq(doc, 1, cs)
                   /\ wk[w].chunk = SubSeq(doc, cs + 1, wk[w].i)
                   /\ wk[w].cur_len = Len(Flatten(wk[w].chunk))
                   /\ wk[w].chunk # <<>> => wk[w].cur_len < wk[w].target
                   /\ wk[w].i >= Len(doc) =>
                          /\ wk[w].chunk = <<>> /\ wk[w].placed = doc
                          /\ wk[w].made >= 1
        /\ wk[w].last.set => wk[w].last.ctok >= wk[w].last.target \/ wk[w].last.at_end

\* A BertDataset pass over a document of two sentences has ended with two
\* instances, the second one made of the second sentence.
C18_Witness ==
    \E w \in Workers :
        /\ cfg.task = "bert" /\ wk[w].pc = "build" /\ wk[w].bs = "loop"
        /\ Len(CurrentDoc(w)) = 2 /\ wk[w].i = 2
        /\ wk[w].made = 2 /\ wk[w].last.cs = 1
        /\ wk[w].placed = CurrentDoc(w)

\* The position of seg (and of tgt_mlm, 0 if none) in an instance.
SegField == IF cfg.task = "bert" THEN 4 ELSE 3

\* C19: the instance of the last chunk is, before masking, CLS, A, SEP, B,
\* SEP and then PAD up to seq_length; its seg is 1 at the first len(A) + 2
\* positions, 2 at the next len(B) + 1 and PAD at the padded ones, so that
\* seg is not PAD exactly where src is not padding.
C19_Assembled ==
    \A w \in Workers :
        wk[w].last.set =>
            LET l == wk[w].last
                n == Len(l.a) + Len(l.b) + 3
                L == cfg.seq_length
                want == [k \in 1..L |->
                            IF k = 1 THEN CLS_ID
                            ELSE IF k <= Len(l.a) + 1 THEN l.a[k - 1]
                            ELSE IF k = Len(l.a) + 2 THEN SEP_ID
                            ELSE IF k <= n - 1 THEN l.b[k - Len(l.a) - 2]
                            ELSE IF k = n THEN SEP_ID
                            ELSE PAD_ID]
                src == l.ins[1]
                seg == l.ins[SegField]
                unmasked == IF cfg.task = "bert"
                            THEN [k \in 1..L |-> IF l.ins[2][k] # PAD_ID THEN l.ins[2][k]
                                                 ELSE src[k]]
                            ELSE src
            IN  /\ n <= L
                /\ unmasked = want
                /\ seg = [k \in 1..L |-> IF k <= Len(l.a) + 2 THEN 1
                                         ELSE IF k <= n THEN 2 ELSE PAD_ID]
                /\ Cardinality({k \in 1..L : seg[k] # PAD_ID}) = n

\* A BertDataset instance with one token in A, one in B and padding.
C19_Witness ==
    \E w \in Workers :
        /\ cfg.task = "bert" /\ wk[w].last.set
        /\ Len(wk[w].last.a) = 1 /\ Len(wk[w].last.b) = 1 /\ cfg.seq_length = 6
        /\ wk[w].last.ins[4] = <<1, 1, 1, 2, 2, PAD_ID>>

\* C20: a turn of a loader's __iter__ refills the buffer exactly when the
\* next full stride would exceed end (start + batch_size*proc_num > end); a
\* full stride that still fits (start + batch_size*proc_num <= end) is
\* handed out without a refill.
C20_RefillsWhenStrideExceeds ==
    [][ld.kind # "none" /\ ~ld'.err =>
           ((ld'.did # "none") <=> (ld.start + ld.batch_size * ld.proc_num > ld.end))]_vars

\* C21: a BertDataLoader is in repeat-read mode, once it has refilled, if
\* and only if the shard holds more instances than instances_buffer_size;
\* it is not before the first refill, and after the first refill the mode
\* never changes (repeat_read_dataset is never reset, and a loader that read
\* the whole shard within capacity never sets it).
C21_RepeatIffExceeds ==
    /\ [](ld.kind = "bert" =>
            /\ ld.fills = 0 => ~ld.repeat_read_dataset
            /\ ld.fills >= 1 =>
                   (ld.repeat_read_dataset <=> Len(Flatten(ld.written)) > ld.buffer_size))
    /\ [][ld.kind = "bert" =>
            /\ ld.repeat_read_dataset => ld'.repeat_read_dataset
            /\ ld.fills >= 1 => ld'.repeat_read_dataset = ld.repeat_read_dataset]_vars

\* A BertDataLoader in repeat-read mode has read the shard a second time.
C21_Witness ==
    /\ ld.kind = "bert" /\ ld.fills >= 2 /\ ld.did = "read" /\ ld.reread
    /\ ld.repeat_read_dataset /\ Len(Flatten(ld.written)) = ld.buffer_size + 1

\* The batches a refill loads when it starts at file cursor fpos and loads
\* n of them, in file order with EOF rewinding to the first batch.
CyclicRun(fpos, n) ==
    [k \in 1..n |-> ld.file[((fpos + k - 1) % Len(ld.file)) + 1]]

\* C22: in repeat-read mode a refill of BertDataLoader loads the batches
\* that follow the last one loaded, in file order, with EOF rewinding to the
\* first batch: at least one batch and at most every batch once, the file
\* cursor left after the last one loaded, so no batch is skipped and no
\* buffer holds a batch twice; and every batch is loaded again within as
\* many refills as the shard has batches.
C22_CyclicReload ==
    /\ [][ld.kind = "bert" /\ ld.repeat_read_dataset /\ ld'.did = "read" =>
            \E n \in 1..Len(ld.file) :
                /\ ld'.buffer \in Shuffled(ld, Flatten(CyclicRun(ld.fpos, n)))
                /\ ld'.fpos = ((ld.fpos + n - 1) % Len(ld.file)) + 1]_vars
    /\ [](ld.kind = "bert" /\ ld.repeat_read_dataset =>
            \A b \in 1..Len(ld.file) : ld.age[b] < Len(ld.file))

\* A refill in repeat-read mode has met EOF, rewound and loaded the first
\* batch after the last one of a shard of three batches.
C22_Witness ==
    /\ ld.kind = "bert" /\ ld.repeat_read_dataset /\ ld.did = "read" /\ ld.reread
    /\ Len(ld.file) = 3 /\ ld.fpos = 1 /\ ~ld.shuffle
    /\ ld.buffer = ld.file[3] \o ld.file[1]
    /\ ld.age = <<0, 1, 0>>

\* A worker of BertDataset that will close no more documents: it has
\* returned, or it has read to the end of the file and readline gives it
\* the empty string on every turn.
BertAtRest(w) ==
    \/ wk[w].pc = "done"
    \/ wk[w].pc = "read" /\ wk[w].f = Len(cfg.corpus) /\ wk[w].spins >= 1

\* The documents worker w closed are the documents of its flushes, each in
\* one flush, and the shard has the instances of every flush.
ClosedBuiltOnce(w) ==
    /\ Flatten(wk[w].built) = wk[w].closed
    /\ Len(wk[w].shard) = Len(wk[w].built)
    /\ \A k \in 1..Len(wk[w].shard) :
           Len(wk[w].shard[k]) >= cfg.dup_factor * Len(wk[w].built[k])

\* C23: in BertDataset.worker the documents buffer never holds more than
\* docs_buffer_size documents and is below that size whenever the worker
\* reads a line (it is flushed and emptied on reaching it); and once the
\* worker will close no more documents, every document it closed was passed
\* to build_instances in exactly one flush and the instances of every flush
\* are in the shard.
C23_ClosedBuiltOnce ==
    \A w \in Workers :
        cfg.task = "bert" /\ wk[w].pc \in {"read", "build", "done"} =>
            /\ Len(wk[w].docs_buffer) <= cfg.buffer_size
            /\ wk[w].pc = "read" => Len(wk[w].docs_buffer) < cfg.buffer_size
            /\ BertAtRest(w) => ClosedBuiltOnce(w)

\* The lines of the corpus, each with the offset it starts at.
WholeLines == Range(CorpusLines(cfg.corpus, 0))

\* C24: when a build of a byte-oriented line builder (dup_factor 1) has
\* returned with no worker failed, every line a worker read is a whole line
\* of the corpus (none starts inside a line), no line was read by two
\* workers, and every line of the corpus was read by some worker.
C24_EveryLineOnce ==
    cfg.task \in {"lm", "cls", "s2s", "mlm"} /\ cfg.dup_factor = 1 /\ returned = "yes"
    /\ (\A w \in Workers : wk[w].pc # "crashed") =>
        LET W == 0..(cfg.workers_num - 1)
        IN  /\ \A w \in W : Range(LinesRead(w)) \subseteq WholeLines
            /\ \A w1, w2 \in W :
                   w1 # w2 => {l.at : l \in Range(LinesRead(w1))}
                                  \cap {l.at : l \in Range(LinesRead(w2))} = {}
            /\ UNION {Range(LinesRead(w)) : w \in W} = WholeLines

\* The number of entries of s that are not PAD.
RealCount(s) == Cardinality({k \in 1..Len(s) : s[k] # PAD_ID})

\* C25: for a line of ids t[1..n] LmDataset emits src, tgt and seg of
\* seq_length entries with m = min(max(n - 1, 0), seq_length) real
\* positions: at k <= m src[k] = t[k], tgt[k] = t[k + 1] (the token that
\* follows) and seg[k] = 1, and beyond m all three are PAD; when no id of
\* the line is PAD the three hold the same number of entries that are not
\* PAD.
C25_ShiftedByOne ==
    fn.op = "lm" /\ fn.returned =>
        LET t == fn.ids
            L == fn.L
            m == Min(Max(Len(t) - 1, 0), L)
            src == fn.out[1]
            tgt == fn.out[2]
            seg == fn.out[3]
        IN  /\ Len(src) = L /\ Len(tgt) = L /\ Len(seg) = L
            /\ \A k \in 1..L :
                   IF k <= m
                   THEN src[k] = t[k] /\ tgt[k] = t[k + 1] /\ seg[k] = 1
                   ELSE src[k] = PAD_ID /\ tgt[k] = PAD_ID /\ seg[k] = PAD_ID
            /\ (\A k \in 1..Len(t) : t[k] # PAD_ID) =>
                   RealCount(src) = m /\ RealCount(tgt) = m /\ RealCount(seg) = m

\* A line of three different ids with seq_length 3: two real positions and
\* one of padding.
C25_Witness ==
    /\ fn.op = "lm" /\ fn.returned /\ fn.L = 3 /\ fn.ids = <<X_ID, UNK_ID, MASK_ID>>
    /\ fn.out = <<<<X_ID, UNK_ID, PAD_ID>>, <<UNK_ID, MASK_ID, PAD_ID>>, <<1, 1, PAD_ID>>>>

\* C26: at a position mask_seq has passed, src holds MASK_ID when the
\* rescaled draw was below 0.8, an id of 1..vocab_size-1 that is none of
\* CLS, SEP, MASK (so never PAD) when it was in [0.8, 0.9), and the
\* original token when it was in [0.9, 1.0), with the original token as
\* target in the three cases; a position that is not a candidate keeps its
\* token; every draw that is written is such an id; and the call, its
\* rejection loop included, returns.
C26_CandidateOutcomes ==
    /\ [](fn.op = "mask_step" =>
            /\ \A k \in 1..Len(fn.tgt) :
                   CASE fn.how[k] = "mask" ->
                            fn.src[k] = MASK_ID /\ fn.tgt[k] = fn.src0[k]
                     [] fn.how[k] = "rand" ->
                            /\ fn.src[k] \in 1..(VocabSize - 1)
                            /\ fn.src[k] \notin {PAD_ID, CLS_ID, SEP_ID, MASK_ID}
                            /\ fn.tgt[k] = fn.src0[k]
                     [] fn.how[k] = "keep" ->
                            fn.src[k] = fn.src0[k] /\ fn.tgt[k] = fn.src0[k]
                     [] OTHER -> fn.src[k] = fn.src0[k] /\ fn.tgt[k] = PAD_ID
            /\ \A k \in 1..Len(fn.src) :
                   k > Len(fn.tgt) => fn.src[k] = fn.src0[k]
            /\ Len(fn.src) = Len(fn.src0) /\ Len(fn.tgt) = fn.i)
    /\ <>(fn.op = "mask_step" /\ fn.pc = "done")

\* mask_seq has returned after its rejection loop rejected a draw and then
\* replaced the second token, x, by the unknown-token id.
C26_Witness ==
    /\ fn.op = "mask_step" /\ fn.pc = "done" /\ fn.rejected
    /\ fn.src0 = <<CLS_ID, X_ID>> /\ fn.how = <<"skip", "rand">>
    /\ fn.src = <<CLS_ID, UNK_ID>> /\ fn.tgt = <<PAD_ID, X_ID>>

\* The instances LmDataset.worker builds for the range from off to end of
\* corpus c, as a function of the corpus, the range and seq_length alone.
RECURSIVE SoloLm(_, _, _, _)
SoloLm(c, off, end, L) ==
    LET ins == LmInstance(TokenIds(ReadLine(c, off)), L)
    IN  IF LineEnd(c, off) >= end THEN <<ins>>
        ELSE <<ins>> \o SoloLm(c, LineEnd(c, off), end, L)

\* C27: the workers of a build write to files of different names, the
\* name of worker i being that of proc_id i; a step of the build changes
\* the state of one worker, its shard included, and of no other and leaves
\* the corpus and the configuration as they are; and the shard a worker of
\* LmDataset closes is the one its range of the corpus determines, whatever
\* the other workers did in between.
C27_WorkersIsolated ==
    /\ [](\A w1, w2 \in Workers :
            /\ wk[w1].pc # "idle" => wk[w1].file = ShardName(w1)
            /\ w1 # w2 /\ wk[w1].pc # "idle" /\ wk[w2].pc # "idle"
                   => wk[w1].file # wk[w2].file)
    /\ [][cfg.phase = "running" =>
            /\ cfg' = cfg
            /\ \A w \in Workers :
                   wk'[w] # wk[w] => \A v \in Workers \ {w} : wk'[v] = wk[v]]_vars
    /\ [](\A w \in Workers :
            cfg.task = "lm" /\ wk[w].pc = "done" =>
                wk[w].shard = <<SoloLm(cfg.corpus,
                                       RangeStart(w, CorpusSize, cfg.workers_num),
                                       RangeEnd(w, CorpusSize, cfg.workers_num),
                                       cfg.seq_length)>>)

\* The second of two LmDataset workers has closed its shard, of two
\* instances, before the first has read a line.
C27_Witness ==
    /\ cfg.task = "lm" /\ cfg.workers_num = 2
    /\ wk[1].pc = "done" /\ Len(wk[1].shard) = 1 /\ Len(wk[1].shard[1]) = 2
    /\ wk[0].pc = "read" /\ ~wk[0].read_any /\ wk[0].shard = <<>>

====
